---- MODULE Spec2Model ----
(***************************************************************************)
(* A model of the server-side rendering engine of TypeComposer/ssr:        *)
(*   src/src/index.ts           Engine (asset cache, render, controller,   *)
(*                              renderHtml, bundleToIIFE, loadAssets)      *)
(*   src/src/polyfill/index.ts  the compatibility shims                    *)
(*                                                                         *)
(* Strings that the code inspects character by character (request paths,   *)
(* file names) are sequences of one-character strings.                     *)
(***************************************************************************)
EXTENDS Integers, Sequences, FiniteSets, TLC

\* Number of request slots (concurrent calls of Engine.controller).
NumReq == 2

\* How many members of a window may differ from one of the base windows.
MaxFlips == 2

Reqs == 1..NumReq

(***************************************************************************)
(* Characters and small string helpers                                     *)
(***************************************************************************)

StartsWith(s, p) == Len(s) >= Len(p) /\ SubSeq(s, 1, Len(p)) = p

\* String.prototype.endsWith
EndsWith(s, p) == Len(s) >= Len(p) /\ SubSeq(s, Len(s) - Len(p) + 1, Len(s)) = p

\* Index of the first element of s that is in the set cs, or Len(s)+1.
RECURSIVE FirstIn(_, _, _)
FirstIn(s, cs, i) ==
  IF i > Len(s) THEN Len(s) + 1
  ELSE IF s[i] \in cs THEN i
  ELSE FirstIn(s, cs, i + 1)

\* Index of the last element of s that is in the set cs, or 0.
RECURSIVE LastIn(_, _, _)
LastIn(s, cs, i) ==
  IF i = 0 THEN 0
  ELSE IF s[i] \in cs THEN i
  ELSE LastIn(s, cs, i - 1)

UpperToLower ==
  [c \in {"A", "B", "C", "D", "E", "F", "H", "J", "L", "M", "S", "T"} |->
     CASE c = "A" -> "a" [] c = "B" -> "b" [] c = "C" -> "c" [] c = "D" -> "d"
       [] c = "E" -> "e" [] c = "F" -> "f" [] c = "H" -> "h" [] c = "J" -> "j"
       [] c = "L" -> "l" [] c = "M" -> "m" [] c = "S" -> "s" [] c = "T" -> "t"]

\* String.prototype.toLowerCase on the letters the model uses.
ToLowerCase(s) ==
  [i \in 1..Len(s) |-> IF s[i] \in DOMAIN UpperToLower THEN UpperToLower[s[i]] ELSE s[i]]

(***************************************************************************)
(* new URL(urlPath || "/", "http://localhost").pathname                    *)
(*                                                                         *)
(* For inputs over letters, digits and / . % ? # : the query and the       *)
(* fragment are cut off, a leading "//" starts an authority (an empty     *)
(* host is an invalid URL and throws), dot segments are removed, and       *)
(* nothing is percent-encoded because none of these characters is in the   *)
(* path percent-encode set once ? and # are gone.                          *)
(***************************************************************************)

Threw == [ok |-> FALSE, val |-> <<>>]
Ok(v) == [ok |-> TRUE, val |-> v]

IsSingleDot(seg) == seg \in {<<".">>, <<"%", "2", "E">>, <<"%", "2", "e">>}

IsDoubleDot(seg) ==
  \E a, b \in {<<".">>, <<"%", "2", "E">>, <<"%", "2", "e">>} : seg = a \o b

\* The segments of a path that starts with "/": "/a/b" -> << <<"a">>, <<"b">> >>.
RECURSIVE Segments(_)
Segments(p) ==
  IF p = <<>> THEN <<>>
  ELSE LET rest == Tail(p)
           cut  == FirstIn(rest, {"/"}, 1)
       IN  <<SubSeq(rest, 1, cut - 1)>> \o Segments(SubSeq(rest, cut, Len(rest)))

\* The URL parser's path state: "." is dropped, ".." removes the last segment;
\* a dot segment in last position leaves an empty last segment.
RECURSIVE Normalize(_, _)
Normalize(segs, acc) ==
  IF segs = <<>> THEN acc
  ELSE LET s    == Head(segs)
           last == Len(segs) = 1
           pop  == IF acc = <<>> THEN acc ELSE SubSeq(acc, 1, Len(acc) - 1)
       IN  IF IsDoubleDot(s)
             THEN Normalize(Tail(segs), IF last THEN pop \o << <<>> >> ELSE pop)
           ELSE IF IsSingleDot(s)
             THEN Normalize(Tail(segs), IF last THEN acc \o << <<>> >> ELSE acc)
           ELSE Normalize(Tail(segs), acc \o <<s>>)

RECURSIVE JoinSegments(_)
JoinSegments(segs) ==
  IF segs = <<>> THEN <<>> ELSE <<"/">> \o Head(segs) \o JoinSegments(Tail(segs))

PathOf(p) ==
  LET j == JoinSegments(Normalize(Segments(p), <<>>))
  IN  IF j = <<>> THEN <<"/">> ELSE j

Pathname(urlPath) ==
  LET input  == IF urlPath = <<>> THEN <<"/">> ELSE urlPath
      noQF   == SubSeq(input, 1, FirstIn(input, {"?", "#"}, 1) - 1)
  IN  IF StartsWith(noQF, <<"/", "/">>)
        THEN LET after == SubSeq(noQF, 3, Len(noQF))
                 cut   == FirstIn(after, {"/"}, 1)
                 host  == SubSeq(after, 1, cut - 1)
             IN  IF host = <<>> THEN Threw
                 ELSE Ok(PathOf(SubSeq(after, cut, Len(after))))
      ELSE IF StartsWith(noQF, <<"/">>) THEN Ok(PathOf(noQF))
      ELSE Ok(PathOf(<<"/">> \o noQF))

(***************************************************************************)
(* decodeURIComponent                                                      *)
(***************************************************************************)

HexDigits ==
  {"0", "1", "2", "3", "4", "5", "6", "7", "8", "9",
   "a", "b", "c", "d", "e", "f", "A", "B", "C", "D", "E", "F"}

HexVal(c) ==
  CASE c = "0" -> 0 [] c = "1" -> 1 [] c = "2" -> 2 [] c = "3" -> 3 [] c = "4" -> 4
    [] c = "5" -> 5 [] c = "6" -> 6 [] c = "7" -> 7 [] c = "8" -> 8 [] c = "9" -> 9
    [] c \in {"a", "A"} -> 10 [] c \in {"b", "B"} -> 11 [] c \in {"c", "C"} -> 12
    [] c \in {"d", "D"} -> 13 [] c \in {"e", "E"} -> 14 [] c \in {"f", "F"} -> 15

\* The character with the given ASCII code; codes the model has no letter for
\* are kept apart by their number.
CharOfCode(code) ==
  CASE code = 37 -> "%" [] code = 46 -> "." [] code = 47 -> "/"
    [] code = 35 -> "#" [] code = 63 -> "?"
    [] code = 65 -> "A" [] code = 97 -> "a" [] code = 74 -> "J" [] code = 106 -> "j"
    [] OTHER -> "chr" \o ToString(code)

\* Is s[i..i+2] an escape %XX ?
IsEscape(s, i) ==
  /\ i + 2 <= Len(s)
  /\ s[i] = "%"
  /\ s[i + 1] \in HexDigits
  /\ s[i + 2] \in HexDigits

EscapeCode(s, i) == 16 * HexVal(s[i + 1]) + HexVal(s[i + 2])

\* Number of UTF-8 continuation bytes a lead byte asks for; -1: no lead byte.
Continuations(code) ==
  IF code < 128 THEN 0
  ELSE IF code >= 194 /\ code <= 223 THEN 1
  ELSE IF code >= 224 /\ code <= 239 THEN 2
  ELSE IF code >= 240 /\ code <= 244 THEN 3
  ELSE -1

\* The decoded characters of s from position i on; the element URIError marks
\* the place where decodeURIComponent throws.
URIError == "URIError"

RECURSIVE Decode(_, _)
Decode(s, i) ==
  IF i > Len(s) THEN <<>>
  ELSE IF s[i] # "%" THEN <<s[i]>> \o Decode(s, i + 1)
  ELSE IF ~IsEscape(s, i) THEN <<URIError>>
  ELSE LET code == EscapeCode(s, i)
           n    == Continuations(code)
       IN  IF n < 0 THEN <<URIError>>
           ELSE IF \E k \in 1..n :
                     \/ ~IsEscape(s, i + 3 * k)
                     \/ EscapeCode(s, i + 3 * k) < 128
                     \/ EscapeCode(s, i + 3 * k) > 191
             THEN <<URIError>>
           ELSE <<IF n = 0 THEN CharOfCode(code)
                  ELSE "utf8-" \o ToString(code) \o ToString(EscapeCode(s, i + 3))>>
                  \o Decode(s, i + 3 * (n + 1))

decodeURIComponent(s) ==
  LET d == Decode(s, 1)
  IN  IF \E i \in 1..Len(d) : d[i] = URIError THEN Threw ELSE Ok(d)

(***************************************************************************)
(* path.extname and mimeByExt                                              *)
(***************************************************************************)

\* node:path extname: from the last "." of the last path component, unless
\* there is none or it is the component's first character.
extname(pathname) ==
  LET slash == LastIn(pathname, {"/"}, Len(pathname))
      base  == SubSeq(pathname, slash + 1, Len(pathname))
      dot   == LastIn(base, {"."}, Len(base))
  IN  IF dot <= 1 \/ base = <<".", ".">> THEN <<>>
      ELSE SubSeq(base, dot, Len(base))

\* The switch of mimeByExt, on the extension it is given.
MimeOfExt(ext) ==
  CASE ext \in {<<".", "j", "s">>, <<".", "m", "j", "s">>} -> "text/javascript; charset=utf-8"
    [] ext = <<".", "c", "s", "s">> -> "text/css; charset=utf-8"
    [] ext = <<".", "s", "v", "g">> -> "image/svg+xml"
    [] ext = <<".", "j", "s", "o", "n">> -> "application/json; charset=utf-8"
    [] ext = <<".", "w", "a", "s", "m">> -> "application/wasm"
    [] ext = <<".", "m", "a", "p">> -> "application/json; charset=utf-8"
    [] ext = <<".", "p", "n", "g">> -> "image/png"
    [] ext \in {<<".", "j", "p", "g">>, <<".", "j", "p", "e", "g">>} -> "image/jpeg"
    [] ext = <<".", "g", "i", "f">> -> "image/gif"
    [] ext = <<".", "h", "t", "m", "l">> -> "text/html; charset=utf-8"
    [] OTHER -> "application/octet-stream"

mimeByExt(pathname) == MimeOfExt(ToLowerCase(extname(pathname)))

(***************************************************************************)
(* The template folder and loadAssets                                      *)
(***************************************************************************)

File(name, bytes) == [name |-> name, kind |-> "file", bytes |-> bytes, entries |-> {}]
Dir(name, entries) == [name |-> name, kind |-> "dir", bytes |-> "", entries |-> entries]

\* The folders createServer may be pointed at. "none" does not exist on disk.
Folders == {"none", "site", "mixed", "media"}

FolderEntries(f) ==
  CASE f = "site" ->
         { File(<<"a", ".", "j", "s">>, "bytes:a.js"),
           File(<<"A", ".", "j", "s">>, "bytes:A.js"),
           File(<<"%", "4", "1", ".", "j", "s">>, "bytes:%41.js"),
           File(<<"i", ".", "h", "t", "m", "l">>, "bytes:i.html"),
           Dir(<<"d">>,
               { File(<<"a", ".", "c", "s", "s">>, "bytes:d/a.css"),
                 Dir(<<"e">>, { File(<<"i", ".", "h", "t", "m", "l">>, "bytes:d/e/i.html") }) }) }
    [] f = "mixed" ->
         { File(<<"a", ".", "J", "S">>, "bytes:a.JS"),
           File(<<".", "j", "s">>, "bytes:.js"),
           File(<<"a">>, "bytes:a"),
           File(<<"a", ".">>, "bytes:a."),
           File(<<"a", ".", "m", "j", "s">>, "bytes:a.mjs"),
           File(<<"1", "0", "0", "%", ".", "c", "s", "s">>, "bytes:100%.css"),
           File(<<"a", ".", "j", "s", ".", "m", "a", "p">>, "bytes:a.js.map") }
    [] f = "media" ->
         { File(<<"a", ".", "s", "v", "g">>, "bytes:a.svg"),
           File(<<"a", ".", "j", "s", "o", "n">>, "bytes:a.json"),
           File(<<"a", ".", "w", "a", "s", "m">>, "bytes:a.wasm"),
           File(<<"a", ".", "p", "n", "g">>, "bytes:a.png"),
           File(<<"a", ".", "j", "p", "g">>, "bytes:a.jpg"),
           File(<<"a", ".", "j", "p", "e", "g">>, "bytes:a.jpeg"),
           File(<<"a", ".", "g", "i", "f">>, "bytes:a.gif") }
    [] OTHER -> {}

existsSync(f) == f # "none"

\* loadAssets below the first existsSync test: the (urlPath, content) pairs
\* that assets.set receives for the entries of one folder; folderName <<>> is
\* the null of the root call.
RECURSIVE LoadEntries(_, _)
LoadEntries(entries, folderName) ==
  UNION { IF e.kind = "file"
            THEN { << (IF folderName # <<>> THEN <<"/">> \o folderName ELSE <<>>)
                        \o <<"/">> \o e.name,
                      e.bytes >> }
            ELSE LoadEntries(e.entries,
                             IF folderName # <<>> THEN folderName \o <<"/">> \o e.name
                             ELSE e.name)
          : e \in entries }

\* The pairs loadAssets(folder) sets, computed once per folder.
LoadedPairs ==
  [f \in Folders \cup {"unset"} |->
     IF ~existsSync(f) THEN {} ELSE LoadEntries(FolderEntries(f), <<>>)]

loadAssets(f) == LoadedPairs[f]

\* The Map after the given pairs were set on top of the map m.
MapSetAll(m, pairs) ==
  [p \in DOMAIN m \cup {e[1] : e \in pairs} |->
     IF \E e \in pairs : e[1] = p THEN (CHOOSE e \in pairs : e[1] = p)[2] ELSE m[p]]

EmptyMap == [p \in {} |-> ""]

(***************************************************************************)
(* The window that the shims patch                                         *)
(*                                                                         *)
(* A window is [g, E, H]: g the members of the window itself, E the own    *)
(* members of Element.prototype, H the own members of                      *)
(* HTMLElement.prototype. A member is "absent", "native" (what the         *)
(* environment provides), "shim" (what a polyfill installed) or the name   *)
(* of the member it aliases. A constructor may also be "noproto": present  *)
(* but without a prototype object.                                         *)
(***************************************************************************)

Globals ==
  {"matchMedia", "ShadowRoot", "ResizeObserver", "IntersectionObserver",
   "CustomEvent", "Event", "Element", "HTMLElement"}

ProtoMembers ==
  {"matches", "msMatchesSelector", "webkitMatchesSelector", "closest", "contains",
   "remove", "replaceWith", "scrollTo", "attachShadow", "innerText"}

\* HTMLElement.prototype is an object (line 11, 42, 112, 162 read through it).
HasHtmlProto(w) ==
  CASE w.g["HTMLElement"] = "native" -> TRUE
    [] w.g["HTMLElement"] = "Element" -> w.g["Element"] = "native"
    [] OTHER -> FALSE

\* Element.prototype is an object.
HasElementProto(w) == w.g["Element"] = "native"

\* win.HTMLElement.prototype[m]: the own member, else the one inherited from
\* Element.prototype; after the aliasing of line 91 both are the same object.
HtmlGet(w, m) ==
  IF w.g["HTMLElement"] = "Element" THEN w.E[m]
  ELSE IF w.H[m] # "absent" THEN w.H[m]
  ELSE IF HasElementProto(w) THEN w.E[m]
  ELSE "absent"

\* Object.getOwnPropertyDescriptor(win.HTMLElement.prototype, m)
HtmlOwn(w, m) == IF w.g["HTMLElement"] = "Element" THEN w.E[m] ELSE w.H[m]

\* win.HTMLElement.prototype[m] = v
HtmlSet(w, m, v) ==
  IF w.g["HTMLElement"] = "Element" THEN [w EXCEPT !.E[m] = v]
  ELSE [w EXCEPT !.H[m] = v]

Returned(w) == [win |-> w, threw |-> FALSE]
Thrown(w) == [win |-> w, threw |-> TRUE]

polyfillMatchMedia(w) ==
  IF w.g["matchMedia"] = "absent"
    THEN Returned([w EXCEPT !.g["matchMedia"] = "shim"])
    ELSE Returned(w)

polyfillInnerText(w) ==
  IF w.g["HTMLElement"] = "absent" \/ ~HasHtmlProto(w) THEN Returned(w)
  ELSE IF HtmlOwn(w, "innerText") = "absent"
    THEN Returned(HtmlSet(w, "innerText", "shim"))
  ELSE Returned(w)

polyfillShadowDOM(w) ==
  IF w.g["ShadowRoot"] = "absent"
    THEN LET w1 == [w EXCEPT !.g["ShadowRoot"] = "shim"]
         IN  IF ~HasHtmlProto(w1) THEN Thrown(w1)
             ELSE Returned(HtmlSet(w1, "attachShadow", "shim"))
    ELSE Returned(w)

\* if (!proto[m]) proto[m] = shim, on HTMLElement.prototype
BackfillHtml(w, m) ==
  IF HtmlGet(w, m) = "absent" THEN HtmlSet(w, m, "shim") ELSE w

polyfillElementAPIs(w) ==
  LET w1 == IF w.g["HTMLElement"] = "absent"
              THEN [w EXCEPT !.g["HTMLElement"] =
                       IF w.g["Element"] = "absent" THEN "absent" ELSE "Element"]
              ELSE w
  IN  IF ~HasElementProto(w1) THEN Thrown(w1)
      ELSE
        LET vendor == IF w1.E["msMatchesSelector"] # "absent" THEN "msMatchesSelector"
                      ELSE IF w1.E["webkitMatchesSelector"] # "absent"
                        THEN "webkitMatchesSelector"
                      ELSE "absent"
            w2 == IF w1.E["matches"] = "absent"
                    THEN [w1 EXCEPT !.E["matches"] = vendor] ELSE w1
            w3 == IF w2.E["closest"] = "absent"
                    THEN [w2 EXCEPT !.E["closest"] = "shim"] ELSE w2
        IN  IF ~HasHtmlProto(w3) THEN Thrown(w3)
            ELSE Returned(BackfillHtml(BackfillHtml(BackfillHtml(w3,
                            "contains"), "remove"), "replaceWith"))

polyfillDOMUtils(w) ==
  IF ~HasHtmlProto(w) THEN Thrown(w)
  ELSE LET w1 == BackfillHtml(w, "scrollTo")
           w2 == IF w1.g["ResizeObserver"] = "absent"
                   THEN [w1 EXCEPT !.g["ResizeObserver"] = "shim"] ELSE w1
           w3 == IF w2.g["IntersectionObserver"] = "absent"
                   THEN [w2 EXCEPT !.g["IntersectionObserver"] = "shim"] ELSE w2
       IN  Returned(w3)

polyfillCustomEvent(w) ==
  IF w.g["CustomEvent"] = "absent"
    THEN LET w1 == [w EXCEPT !.g["CustomEvent"] = "shim"]
         IN  IF w1.g["Event"] = "absent" THEN Thrown(w1) ELSE Returned(w1)
    ELSE Returned(w)

\* The six calls in the order of lines 222-227; a call that throws ends
\* installPolyfills with what was patched so far.
installPolyfills(w) ==
  LET r1 == polyfillMatchMedia(w)
      r2 == IF r1.threw THEN r1 ELSE polyfillInnerText(r1.win)
      r3 == IF r2.threw THEN r2 ELSE polyfillShadowDOM(r2.win)
      r4 == IF r3.threw THEN r3 ELSE polyfillElementAPIs(r3.win)
      r5 == IF r4.threw THEN r4 ELSE polyfillCustomEvent(r4.win)
  IN  IF r5.threw THEN r5 ELSE polyfillDOMUtils(r5.win)

\* Window slots and the values the environment can give them.
Slots ==
  {<<"g", m>> : m \in Globals} \cup {<<"E", m>> : m \in ProtoMembers}
    \cup {<<"H", m>> : m \in ProtoMembers}

SlotValues(s) ==
  IF s \in {<<"g", "Element">>, <<"g", "HTMLElement">>}
    THEN {"absent", "native", "noproto"}
    ELSE {"absent", "native"}

SlotGet(w, s) ==
  CASE s[1] = "g" -> w.g[s[2]] [] s[1] = "E" -> w.E[s[2]] [] OTHER -> w.H[s[2]]

SlotSet(w, s, v) ==
  CASE s[1] = "g" -> [w EXCEPT !.g[s[2]] = v]
    [] s[1] = "E" -> [w EXCEPT !.E[s[2]] = v]
    [] OTHER -> [w EXCEPT !.H[s[2]] = v]

\* A window with nothing, and a browser window with everything.
BareWindow ==
  [g |-> [m \in Globals |-> "absent"],
   E |-> [m \in ProtoMembers |-> "absent"],
   H |-> [m \in ProtoMembers |-> "absent"]]

BrowserWindow ==
  [g |-> [m \in Globals |-> "native"],
   E |-> [m \in ProtoMembers |->
            IF m \in {"msMatchesSelector", "innerText"} THEN "absent" ELSE "native"],
   H |-> [m \in ProtoMembers |-> IF m = "innerText" THEN "native" ELSE "absent"]]

\* The window of a fresh JSDOM: no matchMedia, no observers, no innerText,
\* no scrollTo on elements.
JsdomWindow ==
  [g |-> [m \in Globals |->
            IF m \in {"matchMedia", "ResizeObserver", "IntersectionObserver"}
              THEN "absent" ELSE "native"],
   E |-> [m \in ProtoMembers |->
            IF m \in {"msMatchesSelector", "webkitMatchesSelector", "innerText", "scrollTo"}
              THEN "absent" ELSE "native"],
   H |-> [m \in ProtoMembers |-> "absent"]]

\* The windows within k single-member changes of the window base.
RECURSIVE Vary(_, _)
Vary(base, k) ==
  IF k = 0 THEN {base}
  ELSE LET prev == Vary(base, k - 1)
       IN  prev \cup UNION { {SlotSet(ws[1], ws[2], v) : v \in SlotValues(ws[2])}
                             : ws \in prev \X Slots }

\* A prototype that does not exist has no members, and innerText is a member
\* of HTMLElement.prototype, the only place line 12 looks for it.
Consistent(w) ==
  /\ w.E["innerText"] = "absent"
  /\ w.g["Element"] # "native" => \A m \in ProtoMembers : w.E[m] = "absent"
  /\ w.g["HTMLElement"] # "native" => \A m \in ProtoMembers : w.H[m] = "absent"

Windows ==
  {w \in Vary(BareWindow, MaxFlips) \cup Vary(BrowserWindow, MaxFlips) : Consistent(w)}

(***************************************************************************)
(* Documents, bundles and HTML text                                        *)
(***************************************************************************)

\* A piece of HTML text or a DOM node: the markup of the shell, a script
\* element (its text or its src), an element the application built.
Markup(text) == [tag |-> "markup", text |-> text, src |-> ""]
ScriptText(code) == [tag |-> "script", text |-> code, src |-> ""]
ScriptSrc(x) == [tag |-> "script", text |-> "", src |-> x]
Element(text) == [tag |-> "div", text |-> text, src |-> ""]

\* What esbuild.build can resolve with for the fixed entry file.
Bundles == {"bundle-plain", "bundle-loader"}

\* The nodes the application appends to the body while the bundle runs:
\* one application builds its view, the other also adds a script element
\* with a source URL.
AppRun(code) ==
  IF code = "bundle-loader"
    THEN <<Element("app"), ScriptSrc("/assets/app.js")>>
    ELSE <<Element("app")>>

ReadyStates == {"loading", "interactive", "complete"}

NoDom == [readyState |-> "none", listeners |-> {}, body |-> <<>>]

\* dom.window after installPolyfills(dom.window), and whether that threw.
PatchedWindow == installPolyfills(JsdomWindow)

\* new JSDOM(html, ...): the body of the shell holds only white space.
NewDom(readyState) == [readyState |-> readyState, listeners |-> {}, body |-> <<>>]

\* dom.serialize(): the doctype, the shell around the children of the body.
Serialize(d) ==
  <<Markup("<!DOCTYPE html>"), Markup("<html lang=en><head>...</head><body>")>>
    \o d.body \o <<Markup("</body></html>")>>

\* The test of line 84.
ReadyNowAlways(readyState) == TRUE
ReadyNowNever(readyState) == FALSE
ReadyNow(readyState) == readyState \in {"interactive", "complete"}

\* One document per call of renderHtml (the const of line 73).
SharedDom(r) == 1
DomOf(r) == r

(***************************************************************************)
(* Engine.render and Engine.controller                                     *)
(***************************************************************************)

TextBody(text) == [kind |-> "text", bytes |-> text, html |-> <<>>]
BytesBody(bytes) == [kind |-> "bytes", bytes |-> bytes, html |-> <<>>]
HtmlBody(html) == [kind |-> "html", bytes |-> "", html |-> html]

NoResponse == [statusCode |-> 0, contentType |-> "", body |-> TextBody("")]

\* What a call of render or renderHtml ends with: a result, or an exception.
Result(statusCode, contentType, body) ==
  [threw |-> FALSE,
   res |-> [statusCode |-> statusCode, contentType |-> contentType, body |-> body]]
Exception == [threw |-> TRUE, res |-> NoResponse]

\* The request of a client for the file with url path key: "%" is escaped.
RECURSIVE EncodePath(_)
EncodePath(key) ==
  IF key = <<>> THEN <<>>
  ELSE (IF Head(key) = "%" THEN <<"%", "2", "5">> ELSE <<Head(key)>>)
         \o EncodePath(Tail(key))

KeysOf == [f \in Folders \cup {"unset"} |-> {e[1] : e \in loadAssets(f)}]

Keys(f) == KeysOf[f]

\* The values of req.url sent when the dispatch of render is examined: the
\* keys of the folder, their escaped forms, and paths that miss the cache.
BasePaths ==
  { <<"/">>,
    <<"/", "x", ".", "H", "T", "M", "L">>,
    <<"/", "n", "o", "p", "e">>,
    <<"/", "%">>,
    <<"/", "/">>,
    <<"/", "a", ".", "j", "s", "?", "v">>,
    <<"/", "d", "%", "2", "F", "a", ".", "c", "s", "s">>,
    <<"/", "e", "/", ".", ".", "/", "d", "/", "e", "/", "i", ".", "h", "t", "m", "l">> }

RequestPathsOf ==
  [f \in Folders \cup {"unset"} |->
     BasePaths \cup Keys(f) \cup {EncodePath(k) : k \in Keys(f)}]

RequestPaths(f) == RequestPathsOf[f]

\* The values of req.url sent when the render pipeline is examined.
PagePaths ==
  { <<"/">>, <<"/", "x", ".", "h", "t", "m", "l">>, <<"/", "n", "o", "p", "e">>,
    <<"/", "a", ".", "j", "s">>, <<"/", "%">> }

AllPaths == {<<>>} \cup PagePaths \cup UNION {RequestPaths(f) : f \in Folders}

\* The decoded pathname of lines 122-124.
DecodeRequest(urlPath) ==
  LET pn == Pathname(urlPath)
  IN  IF pn.ok THEN decodeURIComponent(pn.val) ELSE Threw

\* The same, computed once per request path.
DecodedTable == [u \in AllPaths |-> DecodeRequest(u)]

DecodedUrl(urlPath) == DecodedTable[urlPath]

\* The test of line 138.
IsHtmlPathAnyCase(url) ==
  url = <<"/">> \/ EndsWith(ToLowerCase(url), <<".", "h", "t", "m", "l">>)
IsHtmlPath(url) == url = <<"/">> \/ EndsWith(url, <<".", "h", "t", "m", "l">>)

\* The branch render takes for a request: "throw", "asset", "html", "notfound".
RouteHtmlFirst(urlPath, cache) ==
  LET dec == DecodedUrl(urlPath)
  IN  IF ~dec.ok THEN "throw"
      ELSE IF IsHtmlPath(dec.val) THEN "html"
      ELSE IF dec.val \in DOMAIN cache THEN "asset"
      ELSE "notfound"

Route(urlPath, cache) ==
  LET dec == DecodedUrl(urlPath)
  IN  IF ~dec.ok THEN "throw"
      ELSE IF dec.val \in DOMAIN cache THEN "asset"
      ELSE IF IsHtmlPath(dec.val) THEN "html"
      ELSE "notfound"

\* Lines 127-136.
AssetResult(url, cache) == Result(200, mimeByExt(url), BytesBody(cache[url]))

\* Lines 150-156.
NotFoundResult == Result(404, "text/plain; charset=utf-8", TextBody("Not Found"))

\* Lines 99 and 141-147.
HtmlResult(d) ==
  Result(200, "text/html; charset=utf-8",
         HtmlBody(<<Markup("<!doctype html>\n")>> \o Serialize(d)))

\* renderHtml when bundleToIIFE rejects: line 90 awaits it outside any try.
ShellOnBundleError(d) == HtmlResult(d)
OnBundleError(d) == Exception

\* Engine.controller: the response written for what render ended with.
controllerNoCatch(outcome) == IF outcome.threw THEN NoResponse ELSE outcome.res
controller(outcome) ==
  IF outcome.threw
    THEN [statusCode |-> 500, contentType |-> "text/plain; charset=utf-8",
          body |-> TextBody("Internal Server Error")]
    ELSE outcome.res

(***************************************************************************)
(* State                                                                   *)
(***************************************************************************)

VARIABLES
  folder,     \* the folder createServer was given; "unset" before
  started,    \* createServer has returned the HTTP server
  assets,     \* the Map of line 10: url path -> content
  pc,         \* per request: where its controller/render call stands
  url,        \* per request: req.url
  resolved,   \* per request: the promise of lines 82-88 is resolved
  code,       \* per request: the bundle text renderHtml holds, "" before
  doms,       \* the JSDOM objects, by DomOf
  response,   \* per request: what writeHead/end sent
  nresp,      \* per request: how many times writeHead was called
  hist,       \* per request: the steps of the render pipeline so far
  pstage,     \* installPolyfills alone: "off", "before", "once", "twice"
  pwin0,      \* installPolyfills alone: the window it is given
  pres        \* installPolyfills alone: the window it left, and whether it threw

serverVars == <<folder, started, assets, pc, url, resolved, code, doms, response, nresp, hist>>
polyVars == <<pstage, pwin0, pres>>
vars == <<folder, started, assets, pc, url, resolved, code, doms, response, nresp, hist,
          pstage, pwin0, pres>>

ServerInit ==
  /\ folder = "unset"
  /\ started = FALSE
  /\ assets = EmptyMap
  /\ pc = [r \in Reqs |-> "idle"]
  /\ url = [r \in Reqs |-> <<>>]
  /\ resolved = [r \in Reqs |-> FALSE]
  /\ code = [r \in Reqs |-> ""]
  /\ doms = [d \in Reqs |-> NoDom]
  /\ response = [r \in Reqs |-> NoResponse]
  /\ nresp = [r \in Reqs |-> 0]
  /\ hist = [r \in Reqs |-> <<>>]

Init ==
  /\ ServerInit
  /\ pstage = "off"
  /\ pwin0 = <<>>
  /\ pres = <<>>

(***************************************************************************)
(* Actions                                                                 *)
(***************************************************************************)

\* createServer(f): loadAssets, then the HTTP server with the controller.
CreateServer(f) ==
  /\ ~started
  /\ folder' = f
  /\ assets' = MapSetAll(assets, loadAssets(f))
  /\ started' = TRUE
  /\ UNCHANGED <<pc, url, resolved, code, doms, response, nresp, hist, polyVars>>

\* The controller answers request r with what render ended with.
Respond(r, outcome, steps) ==
  LET resp == controller(outcome)
  IN  /\ response' = [response EXCEPT ![r] = resp]
      /\ nresp' = [nresp EXCEPT ![r] = IF resp = NoResponse THEN @ ELSE @ + 1]
      /\ pc' = [pc EXCEPT ![r] = IF resp = NoResponse THEN "rejected" ELSE "responded"]
      /\ hist' = [hist EXCEPT ![r] = @ \o steps]

\* A request arrives: controller calls render, which runs to its first await
\* (or to its return, for an asset, a 404 or an exception). Which readyState
\* the new document reports when line 84 reads it is up to JSDOM.
Request(r, u) ==
  /\ started
  /\ pc[r] = "idle"
  /\ url' = [url EXCEPT ![r] = u]
  /\ LET route == Route(u, assets)
     IN  CASE route = "throw" ->
                /\ Respond(r, Exception, <<"throw">>)
                /\ UNCHANGED <<doms, resolved>>
           [] route = "asset" ->
                /\ Respond(r, AssetResult(DecodedUrl(u).val, assets), <<"asset">>)
                /\ UNCHANGED <<doms, resolved>>
           [] route = "notfound" ->
                /\ Respond(r, NotFoundResult, <<"notfound">>)
                /\ UNCHANGED <<doms, resolved>>
           [] PatchedWindow.threw ->
                /\ Respond(r, Exception, <<"jsdom", "throw">>)
                /\ UNCHANGED <<doms, resolved>>
           [] OTHER ->
                \E rs \in ReadyStates :
                  /\ doms' = [doms EXCEPT ![DomOf(r)] =
                                [NewDom(rs) EXCEPT !.listeners =
                                   IF ReadyNow(rs) THEN {} ELSE {r}]]
                  /\ resolved' = [resolved EXCEPT ![r] = ReadyNow(rs)]
                  /\ pc' = [pc EXCEPT ![r] = "awaitReady"]
                  /\ hist' = [hist EXCEPT ![r] = <<"jsdom", "polyfills", "wait">>]
                  /\ UNCHANGED <<response, nresp>>
  /\ UNCHANGED <<folder, started, assets, code, polyVars>>

\* Some request still holds the document d.
InUse(d) == \E r \in Reqs : DomOf(r) = d /\ pc[r] \in {"awaitReady", "awaitBundle", "awaitTick"}

\* JSDOM finishes parsing document d: readyState becomes "interactive" and
\* DOMContentLoaded runs the listeners, each once.
DomContentLoaded(d) ==
  /\ InUse(d)
  /\ doms[d].readyState = "loading"
  /\ doms' = [doms EXCEPT ![d].readyState = "interactive", ![d].listeners = {}]
  /\ resolved' = [r \in Reqs |-> resolved[r] \/ r \in doms[d].listeners]
  /\ UNCHANGED <<folder, started, assets, pc, url, code, response, nresp, hist, polyVars>>

\* JSDOM finishes loading document d.
DomLoaded(d) ==
  /\ InUse(d)
  /\ doms[d].readyState = "interactive"
  /\ doms' = [doms EXCEPT ![d].readyState = "complete"]
  /\ UNCHANGED <<folder, started, assets, pc, url, resolved, code, response, nresp, hist,
                 polyVars>>

\* renderHtml resumes after the await of line 82 and calls bundleToIIFE.
AfterReady(r) ==
  /\ pc[r] = "awaitReady"
  /\ resolved[r]
  /\ pc' = [pc EXCEPT ![r] = "awaitBundle"]
  /\ hist' = [hist EXCEPT ![r] = @ \o <<"ready", "bundle">>]
  /\ UNCHANGED <<folder, started, assets, url, resolved, code, doms, response, nresp,
                 polyVars>>

\* esbuild resolves with the bundle c: the script element is appended to the
\* body and runs, and renderHtml awaits the timer of line 97.
BundleDone(r, c) ==
  /\ pc[r] = "awaitBundle"
  /\ code' = [code EXCEPT ![r] = c]
  /\ doms' = [doms EXCEPT ![DomOf(r)].body = @ \o <<ScriptText(c)>> \o AppRun(c)]
  /\ pc' = [pc EXCEPT ![r] = "awaitTick"]
  /\ hist' = [hist EXCEPT ![r] =
                @ \o <<IF doms[DomOf(r)].readyState = "loading"
                         THEN "append-while-loading" ELSE "append">>]
  /\ UNCHANGED <<folder, started, assets, url, resolved, response, nresp, polyVars>>

\* esbuild rejects: no entry file, or a build error.
BundleFail(r) ==
  /\ pc[r] = "awaitBundle"
  /\ Respond(r, OnBundleError(doms[DomOf(r)]), <<"bundle-failed">>)
  /\ doms' = [doms EXCEPT ![DomOf(r)] = NoDom]
  /\ UNCHANGED <<folder, started, assets, url, resolved, code, polyVars>>

\* The timer fires: the document is serialized and the response written.
Tick(r) ==
  /\ pc[r] = "awaitTick"
  /\ Respond(r, HtmlResult(doms[DomOf(r)]), <<"tick", "serialize">>)
  /\ doms' = [doms EXCEPT ![DomOf(r)] = NoDom]
  /\ UNCHANGED <<folder, started, assets, url, resolved, code, polyVars>>

\* The steps of the documents and of the render pipeline.
PipelineStep ==
  \/ \E d \in Reqs : DomContentLoaded(d)
  \/ \E d \in Reqs : DomLoaded(d)
  \/ \E r \in Reqs : AfterReady(r)
  \/ \E r \in Reqs : \E c \in Bundles : BundleDone(r, c)
  \/ \E r \in Reqs : BundleFail(r)
  \/ \E r \in Reqs : Tick(r)

Next ==
  \/ \E f \in Folders : CreateServer(f)
  \/ \E r \in Reqs : \E u \in PagePaths : Request(r, u)
  \/ PipelineStep

Spec == Init /\ [][Next]_vars

\* The same server, asked for the keys of its cache and for paths near them.
DispatchNext ==
  \/ \E f \in Folders : CreateServer(f)
  \/ \E r \in Reqs : \E u \in RequestPaths(folder) : Request(r, u)
  \/ PipelineStep

DispatchSpec == Init /\ [][DispatchNext]_vars

\* The server on the folder "site", with the fairness of the event loop (a
\* continuation whose promise is resolved runs, a due timer fires), of JSDOM
\* (parsing ends) and of esbuild (a build ends, well or badly).
LiveNext ==
  \/ CreateServer("site")
  \/ \E r \in Reqs : \E u \in PagePaths : Request(r, u)
  \/ PipelineStep

LiveSpec ==
  /\ Init
  /\ [][LiveNext]_vars
  /\ \A r \in Reqs :
       /\ WF_vars(AfterReady(r))
       /\ WF_vars(Tick(r))
       /\ WF_vars(BundleFail(r) \/ \E c \in Bundles : BundleDone(r, c))
       /\ WF_vars(DomContentLoaded(r))

(***************************************************************************)
(* installPolyfills on its own, for every window of Windows                *)
(***************************************************************************)

PolyInit ==
  /\ ServerInit
  /\ pstage = "before"
  /\ pwin0 \in Windows
  /\ pres = Returned(pwin0)

\* installPolyfills(win)
Install ==
  /\ pstage = "before"
  /\ pres' = installPolyfills(pwin0)
  /\ pstage' = "once"
  /\ UNCHANGED <<pwin0, serverVars>>

\* installPolyfills(win) a second time on the same window
InstallAgain ==
  /\ pstage = "once"
  /\ ~pres.threw
  /\ pres' = installPolyfills(pres.win)
  /\ pstage' = "twice"
  /\ UNCHANGED <<pwin0, serverVars>>

PolyNext == Install \/ InstallAgain

PolySpec == PolyInit /\ [][PolyNext]_vars

(***************************************************************************)
(* Properties                                                              *)
(***************************************************************************)

Range(seq) == {seq[i] : i \in 1..Len(seq)}

Responded(r) == pc[r] = "responded"

\* The cache after loadAssets(f) on the empty Map.
LoadedCache == [f \in Folders |-> MapSetAll(EmptyMap, loadAssets(f))]

\* The content loadAssets read for the url path P of the folder f.
LoadedBytes(f, P) == (CHOOSE e \in loadAssets(f) : e[1] = P)[2]

\* The MIME table as the interface description lists it.
MimeTable ==
  { << <<".", "j", "s">>, "text/javascript; charset=utf-8" >>,
    << <<".", "m", "j", "s">>, "text/javascript; charset=utf-8" >>,
    << <<".", "c", "s", "s">>, "text/css; charset=utf-8" >>,
    << <<".", "s", "v", "g">>, "image/svg+xml" >>,
    << <<".", "j", "s", "o", "n">>, "application/json; charset=utf-8" >>,
    << <<".", "m", "a", "p">>, "application/json; charset=utf-8" >>,
    << <<".", "w", "a", "s", "m">>, "application/wasm" >>,
    << <<".", "p", "n", "g">>, "image/png" >>,
    << <<".", "j", "p", "g">>, "image/jpeg" >>,
    << <<".", "j", "p", "e", "g">>, "image/jpeg" >>,
    << <<".", "g", "i", "f">>, "image/gif" >>,
    << <<".", "h", "t", "m", "l">>, "text/html; charset=utf-8" >> }

MimeTableEntry(ext) ==
  IF \E e \in MimeTable : e[1] = ext
    THEN (CHOOSE e \in MimeTable : e[1] = ext)[2]
    ELSE "application/octet-stream"

IsAssetResponse(resp, P) ==
  /\ resp.statusCode = 200
  /\ resp.contentType = MimeTableEntry(ToLowerCase(extname(P)))
  /\ resp.body = BytesBody(LoadedBytes(folder, P))

\* C1, as stated: for every key P of the asset cache, render(P) returns 200,
\* the MIME table entry of P's extension and the bytes loaded for P, also when
\* P ends in ".html"; and no render call changes the cache.
C1_RenderOfKey ==
  /\ started => assets = LoadedCache[folder]
  /\ \A r \in Reqs :
       (Responded(r) /\ url[r] \in DOMAIN assets) => IsAssetResponse(response[r], url[r])

\* C1, amended: for every request whose decoded pathname P is a key of the
\* asset cache, render returns 200, the MIME table entry of P's extension
\* (path.extname, lower-cased) and the bytes loaded for P at startup, also
\* when P ends in ".html"; and no render call changes the cache.
C1_RenderOfDecodedKey ==
  /\ started => assets = LoadedCache[folder]
  /\ \A r \in Reqs :
       LET dec == DecodedUrl(url[r])
       IN  (Responded(r) /\ dec.ok /\ dec.val \in Keys(folder))
             => IsAssetResponse(response[r], dec.val)

\* A cached .html asset was served from the cache, through an escaped request
\* path or a dot segment, while another request rendered a page.
C1_Witness ==
  \E r, q \in Reqs :
    /\ Responded(r)
    /\ url[r] # DecodedUrl(url[r]).val
    /\ DecodedUrl(url[r]).val \in Keys(folder)
    /\ IsHtmlPath(DecodedUrl(url[r]).val)
    /\ response[r].body.kind = "bytes"
    /\ Responded(q)
    /\ response[q].body.kind = "html"

\* The decoded pathname of request r is no key, not "/" and has no ".html" suffix.
Unroutable(r) ==
  LET dec == DecodedUrl(url[r])
  IN  /\ dec.ok
      /\ dec.val \notin DOMAIN assets
      /\ dec.val # <<"/">>
      /\ ~EndsWith(dec.val, <<".", "h", "t", "m", "l">>)

C2_Answer ==
  \A r \in Reqs :
    (pc[r] # "idle" /\ Unroutable(r)) =>
      /\ Responded(r)
      /\ response[r] = [statusCode |-> 404, contentType |-> "text/plain; charset=utf-8",
                        body |-> TextBody("Not Found")]
      /\ hist[r] = <<"notfound">>
      /\ code[r] = ""
      /\ doms[DomOf(r)] = NoDom

C2_Frame ==
  \A r \in Reqs :
    (pc[r] = "idle" /\ response'[r].statusCode = 404) =>
      /\ assets' = assets
      /\ doms' = doms
      /\ code' = code
      /\ resolved' = resolved
      /\ \A q \in Reqs \ {r} :
           /\ pc'[q] = pc[q]
           /\ response'[q] = response[q]
           /\ hist'[q] = hist[q]

\* C2: a request whose decoded pathname is no key of the cache, is not "/"
\* and does not end in ".html" is answered 404, text/plain, "Not Found",
\* without the render pipeline or the bundler being invoked, and the step
\* changes neither the cache nor any document nor any other request.
C2_NotFound == []C2_Answer /\ [][C2_Frame]_vars

\* Two requests for the same path with an upper-case .HTML suffix were both
\* answered 404.
C2_Witness ==
  \E r, q \in Reqs :
    /\ r # q
    /\ Responded(r) /\ Responded(q)
    /\ url[r] = url[q]
    /\ EndsWith(url[r], <<".", "H", "T", "M", "L">>)
    /\ response[r].statusCode = 404
    /\ response[q] = response[r]

\* An exception was raised while request r was handled.
Failed(r) == "throw" \in Range(hist[r]) \/ "bundle-failed" \in Range(hist[r])

\* C3: an exception raised while a request is handled (path decoding, the
\* bundler) is answered by the controller with a 500 text/plain response and
\* never leaves the controller; every answered request got exactly one
\* response, with status 200, 404 or 500, and no request more than one.
C3_ExceptionsAnswered ==
  \A r \in Reqs :
    /\ pc[r] # "rejected"
    /\ nresp[r] = IF Responded(r) THEN 1 ELSE 0
    /\ Responded(r) => response[r].statusCode \in {200, 404, 500}
    /\ (Responded(r) /\ Failed(r)) =>
         response[r] = [statusCode |-> 500, contentType |-> "text/plain; charset=utf-8",
                        body |-> TextBody("Internal Server Error")]
    /\ (Responded(r) /\ response[r].statusCode = 500) => Failed(r)

\* A request failed while decoding its path, another while bundling.
C3_Witness ==
  \E r, q \in Reqs :
    /\ Responded(r) /\ hist[r] = <<"throw">> /\ response[r].statusCode = 500
    /\ Responded(q) /\ "bundle-failed" \in Range(hist[q]) /\ response[q].statusCode = 500

\* The markup of the shell alone.
ShellHtml == <<Markup("<!doctype html>\n")>> \o Serialize(NewDom("complete"))

Loader(x) == [tag |-> "loader", text |-> "", src |-> x]

\* C5: when the application creates a script element with source URL X, the
\* returned HTML holds a deferred loader for exactly X and no longer holds
\* the bootstrap script text the pipeline injected.
C5_LoaderRewrite ==
  \A r \in Reqs :
    (Responded(r) /\ response[r].body.kind = "html") =>
      \A n \in Range(AppRun(code[r])) :
        (n.tag = "script" /\ n.src # "") =>
          /\ Loader(n.src) \in Range(response[r].body.html)
          /\ ScriptText(code[r]) \notin Range(response[r].body.html)

\* What renderHtml returns for the bundle c when no other call runs.
RenderedAlone(c) ==
  << Markup("<!doctype html>\n"), Markup("<!DOCTYPE html>"),
     Markup("<html lang=en><head>...</head><body>"), ScriptText(c) >>
    \o AppRun(c) \o <<Markup("</body></html>")>>

\* C6: under every interleaving each render works on a document that only
\* it reads and writes (its body holds nothing, or what this render's own
\* bundle put there; only this render listens on it), and the HTML it
\* returns is the HTML it returns when run alone.
C6_Isolation ==
  \A r \in Reqs :
    /\ pc[r] \in {"awaitReady", "awaitBundle"} =>
         /\ doms[DomOf(r)].readyState \in ReadyStates
         /\ doms[DomOf(r)].body = <<>>
         /\ doms[DomOf(r)].listeners \subseteq {r}
    /\ pc[r] = "awaitTick" =>
         doms[DomOf(r)].body = <<ScriptText(code[r])>> \o AppRun(code[r])
    /\ (Responded(r) /\ response[r].body.kind = "html") =>
         response[r].body.html = RenderedAlone(code[r])

\* Two renders overlapped (the second was still waiting for its timer) and
\* returned pages of different bundles.
C6_Witness ==
  \E r, q \in Reqs :
    /\ Responded(r) /\ response[r].body.kind = "html"
    /\ pc[q] = "awaitTick"
    /\ code[r] # code[q]

IsPrefix(s, t) == Len(s) <= Len(t) /\ SubSeq(t, 1, Len(s)) = s

\* Position of the step x in the sequence h, 0 when absent.
Pos(h, x) == IF x \in Range(h) THEN CHOOSE i \in 1..Len(h) : h[i] = x ELSE 0

WaitIsSound(r) ==
  pc[r] = "awaitReady" =>
    IF resolved[r] THEN r \notin doms[DomOf(r)].listeners
    ELSE r \in doms[DomOf(r)].listeners /\ doms[DomOf(r)].readyState = "loading"

\* C10: the readiness wait never misses the readiness event (already
\* interactive or complete: no listener; otherwise the listener is there
\* before the event fires), so with a fair event loop every render whose
\* document reaches readiness and whose bundler call ends is answered.
C10_NoMissedReadiness ==
  /\ [](\A r \in Reqs : WaitIsSound(r))
  /\ \A r \in Reqs : (pc[r] = "awaitReady") ~> Responded(r)

\* A render whose document was already past loading when the wait began, next
\* to one that is waiting with its listener registered.
C10_Witness ==
  \E r, q \in Reqs :
    /\ pc[r] = "awaitReady" /\ resolved[r] /\ doms[DomOf(r)].readyState = "complete"
    /\ pc[q] = "awaitReady" /\ ~resolved[q] /\ q \in doms[DomOf(q)].listeners

\* The members the shims install, as a script sees them: on the window, on
\* Element.prototype, and on HTMLElement.prototype (own or inherited).
WindowMember(w, m) == w.g[m]
ElementMember(w, m) == IF HasElementProto(w) THEN w.E[m] ELSE "absent"
HtmlMember(w, m) == IF HasHtmlProto(w) THEN HtmlGet(w, m) ELSE "absent"

C8_NeverThrows == pstage \in {"once", "twice"} => ~pres.threw

====
